---- MODULE Spec2Model ----
(***************************************************************************)
(* GitOperations (src/src/gitoper.py): a caching facade over queries to    *)
(* the git command-line tool.  The state is the object's fields (_cache,   *)
(* _caching, _trees, _sizes, years), what the most recent call wrote to    *)
(* sys.stderr and to the error file, and what it returned.  The git tool   *)
(* is the environment: every run of it ends with a non-zero status or      *)
(* with one of a few outputs, chosen anew at each run.                     *)
(*                                                                         *)
(* Text.  A Python string that the program takes apart (split,             *)
(* splitlines, strip, int, len) is a sequence of symbols; a symbol is one  *)
(* character, or a word none of the operations applied to that text looks  *)
(* inside.  A string that is only put together (an argument list, the      *)
(* cache key, a log message) is a TLA+ string built with \o.               *)
(*                                                                         *)
(* Left out: git missing altogether (OSError from check_output), an        *)
(* error file that cannot be opened, and arguments the methods are not     *)
(* made for (a date that does not exist, a listing line that is no line    *)
(* of git ls-tree).                                                        *)
(***************************************************************************)
EXTENDS Integers, Sequences, FiniteSets, TLC

VARIABLES
    phase,        \* "ready": __init__ returned; "aborted": __init__ raised
    caching,      \* self._caching
    cache,        \* self._cache: command string -> value
    trees,        \* self._trees: commit -> set of paths
    sizes,        \* self._sizes: commit -> (path -> length)
    years,        \* self.years
    op,           \* the most recent call: its name and arguments
    ret,          \* what it returned, or the exception it raised
    cc,           \* the cached_command call it made (called = FALSE: none)
    direct,       \* exit statuses of the runs of git it made outside cached_command
    stderr,       \* what it wrote to sys.stderr
    errfile,      \* what it wrote to self._errfile
    stdout,       \* what it printed
    invocations,  \* command string -> runs of git made by cached_command
    calls,        \* command string -> cached_command calls
    returned,     \* <<command string, mode>> -> what the first such call returned
    listed,       \* commit -> tree-typed paths of all lines given to fill_trees
    steps         \* calls made since construction

vars == <<phase, caching, cache, trees, sizes, years, op, ret, cc, direct,
          stderr, errfile, stdout, invocations, calls, returned,
          listed, steps>>

(***************************************************************************)
(* Bounds                                                                  *)
(***************************************************************************)
MaxSteps == 2

(***************************************************************************)
(* Python values                                                           *)
(***************************************************************************)
Val(k, s, l, b, n) == [kind |-> k, text |-> s, list |-> l, bool |-> b, int |-> n]
VStr(s)   == Val("str", s, <<>>, FALSE, 0)
VList(l)  == Val("list", <<>>, l, FALSE, 0)
VBool(b)  == Val("bool", <<>>, <<>>, b, 0)
VInt(n)   == Val("int", <<>>, <<>>, FALSE, n)
VNone     == Val("None", <<>>, <<>>, FALSE, 0)
Raise(e)  == Val(e, <<>>, <<>>, FALSE, 0)

Exceptions == {"AttributeError", "CalledProcessError", "IndexError",
               "ValueError", "TypeError", "OverflowError"}
Raised(v) == v.kind \in Exceptions

(***************************************************************************)
(* str methods                                                             *)
(***************************************************************************)
Last(s) == s[Len(s)]

\* index of the first sep in s, 0 when there is none
Find(s, sep) ==
    IF \E i \in 1..Len(s) : s[i] = sep
    THEN CHOOSE i \in 1..Len(s) : s[i] = sep /\ \A j \in 1..(i - 1) : s[j] # sep
    ELSE 0

\* s.split(sep)
RECURSIVE split(_, _)
split(s, sep) ==
    LET i == Find(s, sep)
    IN  IF i = 0 THEN <<s>>
        ELSE <<SubSeq(s, 1, i - 1)>> \o split(SubSeq(s, i + 1, Len(s)), sep)

\* s.splitlines(): no empty last line
RECURSIVE splitlines(_)
splitlines(s) ==
    LET i == Find(s, "\n")
    IN  IF s = <<>> THEN <<>>
        ELSE IF i = 0 THEN <<s>>
        ELSE <<SubSeq(s, 1, i - 1)>> \o splitlines(SubSeq(s, i + 1, Len(s)))

Whitespace == {" ", "\t", "\n"}

\* s.strip()
RECURSIVE lstrip(_)
lstrip(s) == IF s # <<>> /\ Head(s) \in Whitespace THEN lstrip(Tail(s)) ELSE s
RECURSIVE rstrip(_)
rstrip(s) ==
    IF s # <<>> /\ Last(s) \in Whitespace THEN rstrip(SubSeq(s, 1, Len(s) - 1)) ELSE s
strip(s) == rstrip(lstrip(s))

\* the Python string a sequence of symbols stands for
RECURSIVE Str(_)
Str(s) == IF s = <<>> THEN "" ELSE Head(s) \o Str(Tail(s))

\* " ".join(list)
RECURSIVE join(_)
join(list) ==
    IF list = <<>> THEN ""
    ELSE IF Len(list) = 1 THEN list[1]
    ELSE list[1] \o " " \o join(Tail(list))

Digits == <<"0", "1", "2", "3", "4", "5", "6", "7", "8", "9">>
IsDigit(c) == \E i \in 1..10 : Digits[i] = c
DigitVal(c) == (CHOOSE i \in 1..10 : Digits[i] = c) - 1

\* int(s): surrounding whitespace is ignored; ValueError unless digits remain
RECURSIVE Number(_)
Number(s) == IF s = <<>> THEN 0 ELSE 10 * Number(SubSeq(s, 1, Len(s) - 1)) + DigitVal(Last(s))
int(s) ==
    LET d == strip(s)
    IN  IF d # <<>> /\ \A i \in 1..Len(d) : IsDigit(d[i])
        THEN VInt(Number(d)) ELSE Raise("ValueError")

\* "%02d" % n and "%04d" % n
Fmt02(n) == Digits[((n \div 10) % 10) + 1] \o Digits[(n % 10) + 1]
Fmt04(n) == Fmt02(n \div 100) \o Fmt02(n % 100)

\* a < b for two strings of digits, as sorted() compares them
RECURSIVE StrLess(_, _)
StrLess(a, b) ==
    IF b = <<>> THEN FALSE
    ELSE IF a = <<>> THEN TRUE
    ELSE IF Head(a) = Head(b) THEN StrLess(Tail(a), Tail(b))
    ELSE DigitVal(Head(a)) < DigitVal(Head(b))

\* sorted(lines)[0], for a non-empty list
SortedFirst(lines) ==
    LET i == CHOOSE i \in 1..Len(lines) :
                 \A j \in 1..Len(lines) : ~StrLess(lines[j], lines[i])
    IN  lines[i]

(***************************************************************************)
(* Dates                                                                   *)
(***************************************************************************)
IsLeap(y) == (y % 4 = 0 /\ y % 100 # 0) \/ y % 400 = 0
DaysInMonth(y, m) ==
    IF m = 2 THEN (IF IsLeap(y) THEN 29 ELSE 28)
    ELSE IF m \in {4, 6, 9, 11} THEN 30 ELSE 31

\* datetime.date(y, m, d) - datetime.timedelta(days=1), for a date after 0001-01-01
PrevDay(y, m, d) ==
    IF d > 1 THEN <<y, m, d - 1>>
    ELSE IF m > 1 THEN <<y, m - 1, DaysInMonth(y, m - 1)>>
    ELSE <<y - 1, 12, 31>>

\* '%04d-%02d-%02d' % (y, m, d)
FmtDate(y, m, d) == Fmt04(y) \o "-" \o Fmt02(m) \o "-" \o Fmt02(d)

(***************************************************************************)
(* The git tool                                                            *)
(***************************************************************************)
repo == "repo"
\* os.path.join(repo, '.git')
gitrepo == repo \o "/" \o ".git"

FailStatus == 128

Commits == {"c1", "c2"}
Root == <<>>

\* argument lists of the facade's queries
FirstYearList == <<"log", "--max-parents=0", "--date=format:%Y", "--pretty=%ad", "master">>
LastYearList  == <<"log", "-n", "1", "--date=format:%Y", "--pretty=%ad", "master">>
BranchesList  == <<"for-each-ref", "--format=%(objectname) %(refname)", "refs/heads/">>
TagsList      == <<"for-each-ref", "--format=%(objectname) %(refname)", "refs/tags/">>
RevList(ref)  == <<"rev-list", "-n", "1", ref, "--">>
LsTree(commit, path)  == <<"ls-tree", commit, path>>
CatFile(commit, path) == <<"cat-file", "-t", "--allow-unknown-type", commit \o ":" \o path>>
LogWindow(after, before) == <<"log", "--after", after, "--before", before, "--pretty=%H">>

\* the text of a list of lines, each ended by a newline
RECURSIVE Text(_)
Text(lines) == IF lines = <<>> THEN <<>> ELSE Head(lines) \o <<"\n">> \o Text(Tail(lines))

\* lines of git ls-tree: <mode> SP <type> SP <object> TAB <path>
LineA  == <<"040000", " ", "tree", " ", "h1", "\t", "a">>
LineB  == <<"100644", " ", "blob", " ", "h2", "\t", "b">>
LineMy == <<"040000", " ", "tree", " ", "h3", "\t", "my", " ", "dir">>
LineAC == <<"040000", " ", "tree", " ", "h4", "\t", "a", "/", "c">>

\* the commits HEAD reaches, most recent first: hash, day and second of the
\* day of the commit's timestamp
History ==
    <<[hash |-> "h4", day |-> <<2020, 3, 15>>, sec |-> 0],
      [hash |-> "h3", day |-> <<2020, 3, 14>>, sec |-> 86399],
      [hash |-> "h2", day |-> <<2020, 3, 14>>, sec |-> 0],
      [hash |-> "h1", day |-> <<2020, 3, 13>>, sec |-> 86399]>>

\* the second of the day at which git is run
Clock == {0, 43200}

\* the days git is asked about
LogDays == {<<2020, 3, 15>>, <<2020, 3, 14>>, <<2020, 3, 13>>, <<2020, 3, 1>>,
            <<2020, 2, 29>>, <<2020, 2, 28>>, <<2021, 1, 1>>, <<2020, 12, 31>>}

\* a <= b for two instants <<year, month, day, second>>
RECURSIVE NotAfter(_, _)
NotAfter(a, b) ==
    IF a = <<>> THEN TRUE
    ELSE IF Head(a) # Head(b) THEN Head(a) < Head(b)
    ELSE NotAfter(Tail(a), Tail(b))

\* the day a YYYY-MM-DD argument names, <<>> if it is none of LogDays
AskedDay(arg) ==
    IF \E d \in LogDays : FmtDate(d[1], d[2], d[3]) = arg
    THEN CHOOSE d \in LogDays : FmtDate(d[1], d[2], d[3]) = arg
    ELSE <<>>

\* the lines of git log --after <after> --before <before> --pretty=%H run at
\* second now of the day: a date given without a time of day stands for that
\* day at the time of day of the run, and both limits are inclusive
GitLog(after, before, now) ==
    IF AskedDay(after) # <<>> /\ AskedDay(before) # <<>>
    THEN LET In(c) == /\ NotAfter(AskedDay(after) \o <<now>>, c.day \o <<c.sec>>)
                      /\ NotAfter(c.day \o <<c.sec>>, AskedDay(before) \o <<now>>)
             shown == SelectSeq(History, In)
         IN  [i \in 1..Len(shown) |-> <<shown[i].hash>>]
    ELSE <<>>

\* what git may print on success, by query
GitOutputs(list) ==
    IF list = FirstYearList THEN
        {Text(<<<<"2", "0", "1", "6">>, <<"2", "0", "1", "4">>>>)}
    ELSE IF list = LastYearList THEN {Text(<<<<"2", "0", "1", "7">>>>)}
    ELSE IF list = BranchesList THEN {<<>>, Text(<<<<"h1", " ", "refs/heads/master">>>>)}
    ELSE IF list = TagsList THEN {<<>>, Text(<<<<"h2", " ", "refs/tags/v1">>>>)}
    ELSE IF list[1] = "rev-list" THEN {Text(<<<<"h1">>>>)}
    ELSE IF list[1] = "ls-tree" THEN
        IF list[3] = "" THEN {Text(<<LineA, LineB>>), Text(<<LineMy>>)}
        ELSE {Text(<<LineAC>>), <<>>}
    ELSE IF list[1] = "cat-file" THEN {Text(<<<<"tree">>>>), Text(<<<<"blob">>>>)}
    ELSE IF list[1] = "log" /\ Len(list) = 2 THEN {Text(<<<<"h2">>, <<"h1">>>>)}
    ELSE IF list[1] = "log" THEN {Text(GitLog(list[3], list[5], now)) : now \in Clock}
    ELSE IF list[1] = "show" THEN {<<>>, <<"x", "\n">>}
    ELSE {<<>>}

\* one run of git: a non-zero status, or status 0 and an output
GitRuns(list) ==
    {[status |-> FailStatus, out |-> <<>>]}
        \cup {[status |-> 0, out |-> o] : o \in GitOutputs(list)}

(***************************************************************************)
(* cached_command                                                          *)
(***************************************************************************)
EmptyMap == [k \in {} |-> 0]
Put(f, k, v) == [x \in DOMAIN f \cup {k} |-> IF x = k THEN v ELSE f[x]]
Count(f, k) == IF k \in DOMAIN f THEN f[k] ELSE 0

\* " ".join(['git', '--git-dir', self._gitrepo] + list)
Command(list) == join(<<"git", "--git-dir", gitrepo>> \o list)

Decimal(n) == IF n < 10 THEN Digits[n + 1]
              ELSE IF n < 100 THEN Fmt02(n)
              ELSE Digits[(n \div 100) + 1] \o Fmt02(n % 100)

\* str(e) for the CalledProcessError of a run of command (the command is
\* written here as the joined string, not as the list's repr)
ErrorStr(command, status) ==
    "Command '" \o command \o "' returned non-zero exit status " \o Decimal(status)

\* "Error calling %s: %s" % (command, str(e))
Message(command, status) == "Error calling " \o command \o ": " \o ErrorStr(command, status)

\* as cached_command, but a failure (None, False) is never stored
cached_command_successes_only(c, flag, list, rc, run) ==
    LET command == Command(list)
        out == IF run.status = 0
               THEN (IF rc THEN VBool(TRUE) ELSE VStr(run.out))
               ELSE (IF rc THEN VBool(FALSE) ELSE VNone)
    IN  IF command \in DOMAIN c
        THEN [called |-> TRUE, key |-> command, rc |-> rc, hit |-> TRUE,
              status |-> -1, ret |-> c[command], cache |-> c, msgs |-> <<>>]
        ELSE [called |-> TRUE, key |-> command, rc |-> rc, hit |-> FALSE,
              status |-> run.status, ret |-> out,
              cache |-> IF flag /\ run.status = 0 THEN Put(c, command, out) ELSE c,
              msgs |-> IF run.status # 0 /\ ~rc
                       THEN <<Message(command, run.status)>> ELSE <<>>]

\* as cached_command, but the result is stored whatever self._caching is
cached_command_always_stores(c, flag, list, rc, run) ==
    LET command == Command(list)
        out == IF run.status = 0
               THEN (IF rc THEN VBool(TRUE) ELSE VStr(run.out))
               ELSE (IF rc THEN VBool(FALSE) ELSE VNone)
    IN  IF command \in DOMAIN c
        THEN [called |-> TRUE, key |-> command, rc |-> rc, hit |-> TRUE,
              status |-> -1, ret |-> c[command], cache |-> c, msgs |-> <<>>]
        ELSE [called |-> TRUE, key |-> command, rc |-> rc, hit |-> FALSE,
              status |-> run.status, ret |-> out,
              cache |-> Put(c, command, out),
              msgs |-> IF run.status # 0 /\ ~rc
                       THEN <<Message(command, run.status)>> ELSE <<>>]

\* as cached_command, but a stored None is not a hit: git is run again and
\* the entry replaced
cached_command_retries(c, flag, list, rc, run) ==
    LET command == Command(list)
        out == IF run.status = 0
               THEN (IF rc THEN VBool(TRUE) ELSE VStr(run.out))
               ELSE (IF rc THEN VBool(FALSE) ELSE VNone)
    IN  IF command \in DOMAIN c /\ c[command] # VNone
        THEN [called |-> TRUE, key |-> command, rc |-> rc, hit |-> TRUE,
              status |-> -1, ret |-> c[command], cache |-> c, msgs |-> <<>>]
        ELSE [called |-> TRUE, key |-> command, rc |-> rc, hit |-> FALSE,
              status |-> run.status, ret |-> out,
              cache |-> IF flag THEN Put(c, command, out) ELSE c,
              msgs |-> IF run.status # 0 /\ ~rc
                       THEN <<Message(command, run.status)>> ELSE <<>>]

\* as cached_command, but the failure is logged in both modes
cached_command_logs_both(c, flag, list, rc, run) ==
    LET command == Command(list)
        out == IF run.status = 0
               THEN (IF rc THEN VBool(TRUE) ELSE VStr(run.out))
               ELSE (IF rc THEN VBool(FALSE) ELSE VNone)
    IN  IF command \in DOMAIN c
        THEN [called |-> TRUE, key |-> command, rc |-> rc, hit |-> TRUE,
              status |-> -1, ret |-> c[command], cache |-> c, msgs |-> <<>>]
        ELSE [called |-> TRUE, key |-> command, rc |-> rc, hit |-> FALSE,
              status |-> run.status, ret |-> out,
              cache |-> IF flag THEN Put(c, command, out) ELSE c,
              msgs |-> IF run.status # 0
                       THEN <<Message(command, run.status)>> ELSE <<>>]

\* as cached_command, but with one cache slot per command and mode
cached_command_slot_per_mode(c, flag, list, rc, run) ==
    LET command == Command(list)
        slot == IF rc THEN command \o " (exit code)" ELSE command
        out == IF run.status = 0
               THEN (IF rc THEN VBool(TRUE) ELSE VStr(run.out))
               ELSE (IF rc THEN VBool(FALSE) ELSE VNone)
    IN  IF slot \in DOMAIN c
        THEN [called |-> TRUE, key |-> command, rc |-> rc, hit |-> TRUE,
              status |-> -1, ret |-> c[slot], cache |-> c, msgs |-> <<>>]
        ELSE [called |-> TRUE, key |-> command, rc |-> rc, hit |-> FALSE,
              status |-> run.status, ret |-> out,
              cache |-> IF flag THEN Put(c, slot, out) ELSE c,
              msgs |-> IF run.status # 0 /\ ~rc
                       THEN <<Message(command, run.status)>> ELSE <<>>]

\* cached_command(list, return_exit_code) on cache c of a facade made with
\* caching flag; run is how git ends if it is run
cached_command(c, flag, list, rc, run) ==
    LET command == Command(list)
        out == IF run.status = 0
               THEN (IF rc THEN VBool(TRUE) ELSE VStr(run.out))
               ELSE (IF rc THEN VBool(FALSE) ELSE VNone)
    IN  IF command \in DOMAIN c
        THEN [called |-> TRUE, key |-> command, rc |-> rc, hit |-> TRUE,
              status |-> -1, ret |-> c[command], cache |-> c, msgs |-> <<>>]
        ELSE [called |-> TRUE, key |-> command, rc |-> rc, hit |-> FALSE,
              status |-> run.status, ret |-> out,
              cache |-> IF flag THEN Put(c, command, out) ELSE c,
              msgs |-> IF run.status # 0 /\ ~rc
                       THEN <<Message(command, run.status)>> ELSE <<>>]

\* a call that does not go through cached_command
NoCall(c) == [called |-> FALSE, key |-> "", rc |-> FALSE, hit |-> FALSE,
              status |-> -1, ret |-> VNone, cache |-> c, msgs |-> <<>>]

CallOf(r) == [called |-> r.called, key |-> r.key, rc |-> r.rc, hit |-> r.hit,
              status |-> r.status, ret |-> r.ret]

(***************************************************************************)
(* __init__                                                                *)
(***************************************************************************)
\* as _first_year, but it takes the first line git printed
first_year_unsorted(v) ==
    IF v.kind # "str" THEN Raise("AttributeError")
    ELSE LET first_years == splitlines(v.text)
         IN  IF first_years = <<>> THEN Raise("IndexError")
             ELSE int(Head(first_years))

\* self._first_year() on the value cached_command returned
first_year(v) ==
    IF v.kind # "str" THEN Raise("AttributeError")
    ELSE LET first_years == splitlines(v.text)
         IN  IF first_years = <<>> THEN Raise("IndexError")
             ELSE int(SortedFirst(first_years))

\* self._last_year() on the value cached_command returned
last_year(v) == IF v.kind # "str" THEN Raise("TypeError") ELSE int(v.text)

\* range(a, b)
range(a, b) == [i \in 1..(b - a) |-> a + i - 1]

OpRec(name, commit, path, list, rc) ==
    [name |-> name, commit |-> commit, path |-> path, list |-> list, rc |-> rc]

\* GitOperations(repo, caching) with caching in flags: the state after __init__,
\* where git ends the first-year query with a run of runs1 and the last-year
\* query with one of runs2
Construct(flags, runs1, runs2) ==
    /\ caching \in flags
    /\ trees = EmptyMap
    /\ sizes = EmptyMap
    /\ listed = EmptyMap
    /\ direct = <<>>
    /\ stdout = <<>>
    /\ steps = 0
    /\ op = OpRec("__init__", "", <<>>, <<>>, FALSE)
    /\ \E run1 \in runs1, run2 \in runs2 :
        LET r1 == cached_command(EmptyMap, caching, FirstYearList, FALSE, run1)
            first == first_year(r1.ret)
            r2 == cached_command(r1.cache, caching, LastYearList, FALSE, run2)
            last == last_year(r2.ret)
        IN  IF Raised(first)
            THEN /\ phase = "aborted"
                 /\ ret = first
                 /\ years = <<>>
                 /\ cache = r1.cache
                 /\ cc = CallOf(r1)
                 /\ stderr = r1.msgs
                 /\ errfile = r1.msgs
                 /\ invocations = (r1.key :> 1)
                 /\ calls = (r1.key :> 1)
                 /\ returned = (<<r1.key, FALSE>> :> r1.ret)
            ELSE /\ phase = IF Raised(last) THEN "aborted" ELSE "ready"
                 /\ ret = IF Raised(last) THEN last ELSE VNone
                 /\ years = IF Raised(last) THEN <<>> ELSE range(first.int, last.int + 1)
                 /\ cache = r2.cache
                 /\ cc = CallOf(r2)
                 /\ stderr = r1.msgs \o r2.msgs
                 /\ errfile = r1.msgs \o r2.msgs
                 /\ invocations = (r1.key :> 1) @@ (r2.key :> IF r2.status = -1 THEN 0 ELSE 1)
                 /\ calls = (r1.key :> 1) @@ (r2.key :> 1)
                 /\ returned = (<<r1.key, FALSE>> :> r1.ret) @@ (<<r2.key, FALSE>> :> r2.ret)

Init == Construct(BOOLEAN, GitRuns(FirstYearList), GitRuns(LastYearList))

(***************************************************************************)
(* fill_trees                                                              *)
(***************************************************************************)
\* path = splitted[-1].split("\t")[-1], with splitted = cont.split(" ")
path_of(cont) == Last(split(Last(split(cont, " ")), "\t"))
\* splitted[1]
type_of(cont) == split(cont, " ")[2]

\* the list trees after the loop over contents, known being self._trees[commit]
RECURSIVE new_trees(_, _)
new_trees(contents, known) ==
    IF contents = <<>> THEN <<>>
    ELSE LET cont == Head(contents)
         IN  (IF type_of(cont) = <<"tree">> /\ path_of(cont) \notin known
              THEN <<path_of(cont)>> ELSE <<>>) \o new_trees(Tail(contents), known)

Elems(s) == {s[i] : i \in 1..Len(s)}

\* as fill_trees, but the commit's set is replaced by the new paths
fill_trees_replaces(tr, commit, contents) ==
    LET seeded == IF commit \in DOMAIN tr THEN tr ELSE Put(tr, commit, {Root})
    IN  Put(seeded, commit, Elems(new_trees(contents, seeded[commit])))

\* self._trees after fill_trees(commit, contents)
fill_trees(tr, commit, contents) ==
    LET seeded == IF commit \in DOMAIN tr THEN tr ELSE Put(tr, commit, {Root})
    IN  Put(seeded, commit, seeded[commit] \cup Elems(new_trees(contents, seeded[commit])))

\* A line of git ls-tree by its format: the type is the second of the fields
\* that single spaces part, the path is all that follows the first tab.
EntryType(line) == LET rest == SubSeq(line, Find(line, " ") + 1, Len(line))
                   IN  SubSeq(rest, 1, Find(rest, " ") - 1)
EntryPath(line) == SubSeq(line, Find(line, "\t") + 1, Len(line))
TreeEntries(contents) ==
    {EntryPath(contents[i]) : i \in {j \in 1..Len(contents) : EntryType(contents[j]) = <<"tree">>}}

\* listed after a fill of commit with contents
Listed(ls, commit, contents) ==
    Put(ls, commit, (IF commit \in DOMAIN ls THEN ls[commit] ELSE {}) \cup TreeEntries(contents))

(***************************************************************************)
(* What the facade's methods make of the value cached_command returned     *)
(***************************************************************************)
\* as stripped_lines, with v.split("\n") for v.splitlines()
stripped_lines_split(v) ==
    IF v.kind # "str" THEN Raise("AttributeError")
    ELSE LET lines == split(v.text, "\n")
         IN  VList([i \in 1..Len(lines) |-> strip(lines[i])])

\* [line.strip() for line in v.splitlines()]; None and booleans have no splitlines
stripped_lines(v) ==
    IF v.kind # "str" THEN Raise("AttributeError")
    ELSE LET lines == splitlines(v.text)
         IN  VList([i \in 1..Len(lines) |-> strip(lines[i])])

\* v.strip()
stripped(v) == IF v.kind # "str" THEN Raise("AttributeError") ELSE VStr(strip(v.text))

\* c.split(" ")[-1].split("\t")[-1].split("/")[-1]
name_of(c) == Last(split(Last(split(Last(split(c, " ")), "\t")), "/"))

\* the list directory_contents returns
names(v) ==
    IF v.kind # "str" THEN Raise("AttributeError")
    ELSE LET contents == splitlines(v.text)
         IN  VList([i \in 1..Len(contents) |-> name_of(contents[i])])

\* what is_dir returns when self._trees has no set for the commit
object_is_tree(v) ==
    IF v.kind # "str" THEN Raise("AttributeError")
    ELSE VBool(strip(v.text) = <<"tree">>)

(***************************************************************************)
(* The calls                                                               *)
(***************************************************************************)
\* a call can be made: the facade exists, and the bound on calls is not reached
Ready == phase = "ready" /\ steps < MaxSteps

\* the bookkeeping every call shares: o the call, v its result, r the
\* cached_command call it made, d its own runs of git, pr what it printed,
\* tr, sz, ls the new _trees, _sizes and listed
Call(o, v, r, d, pr, tr, sz, ls) ==
    /\ steps' = steps + 1
    /\ op' = o
    /\ ret' = v
    /\ cc' = CallOf(r)
    /\ cache' = r.cache
    /\ stderr' = r.msgs
    /\ errfile' = r.msgs
    /\ calls' = IF r.called THEN Put(calls, r.key, Count(calls, r.key) + 1) ELSE calls
    /\ invocations' = IF r.called /\ r.status # -1
                      THEN Put(invocations, r.key, Count(invocations, r.key) + 1)
                      ELSE invocations
    /\ returned' = IF r.called /\ <<r.key, r.rc>> \notin DOMAIN returned
                   THEN Put(returned, <<r.key, r.rc>>, r.ret) ELSE returned
    /\ direct' = d
    /\ stdout' = pr
    /\ trees' = tr
    /\ sizes' = sz
    /\ listed' = ls
    /\ UNCHANGED <<phase, caching, years>>

\* argument lists a client passes to cached_command itself
ClientLists == {TagsList, CatFile("c1", "a")}

Do_cached_command ==
    /\ Ready
    /\ \E list \in ClientLists, rc \in BOOLEAN :
           \E run \in GitRuns(list) :
               LET r == cached_command(cache, caching, list, rc, run)
               IN  Call(OpRec("cached_command", "", <<>>, list, rc), r.ret, r, <<>>, <<>>,
                        trees, sizes, listed)

FillContents == {<<LineA, LineB>>, <<LineMy>>, <<LineAC>>}

Do_fill_trees ==
    /\ Ready
    /\ \E commit \in Commits, contents \in FillContents :
           Call(OpRec("fill_trees", commit, <<>>, contents, FALSE), VNone, NoCall(cache),
                <<>>, <<>>, fill_trees(trees, commit, contents), sizes,
                Listed(listed, commit, contents))

Do_branches ==
    /\ Ready
    /\ \E run \in GitRuns(BranchesList) :
           LET r == cached_command(cache, caching, BranchesList, FALSE, run)
           IN  Call(OpRec("branches", "", <<>>, <<>>, FALSE), stripped_lines(r.ret), r,
                    <<>>, <<>>, trees, sizes, listed)

Do_tags ==
    /\ Ready
    /\ \E run \in GitRuns(TagsList) :
           LET r == cached_command(cache, caching, TagsList, FALSE, run)
           IN  Call(OpRec("tags", "", <<>>, <<>>, FALSE), stripped_lines(r.ret), r,
                    <<>>, <<>>, trees, sizes, listed)

Dates == {<<2020, 3, 15>>, <<2020, 3, 1>>, <<2021, 1, 1>>}

Do_commits ==
    /\ Ready
    /\ \E date \in Dates :
           LET start == PrevDay(date[1], date[2], date[3])
               list == LogWindow(FmtDate(start[1], start[2], start[3]),
                                 FmtDate(date[1], date[2], date[3]))
           IN  \E run \in GitRuns(list) :
                   LET r == cached_command(cache, caching, list, FALSE, run)
                   IN  Call(OpRec("commits", "", <<>>, date, FALSE), stripped_lines(r.ret),
                            r, <<>>, <<>>, trees, sizes, listed)

BranchNames == {"master"}
TagNames == {"v1"}

Do_last_commit_of_branch ==
    /\ Ready
    /\ \E branch \in BranchNames :
           \E run \in GitRuns(RevList(branch)) :
               LET r == cached_command(cache, caching, RevList(branch), FALSE, run)
               IN  Call(OpRec("last_commit_of_branch", branch, <<>>, <<>>, FALSE),
                        stripped(r.ret), r, <<>>, <<>>, trees, sizes, listed)

Do_commit_of_tag ==
    /\ Ready
    /\ \E tag \in TagNames :
           \E run \in GitRuns(RevList(tag)) :
               LET r == cached_command(cache, caching, RevList(tag), FALSE, run)
               IN  Call(OpRec("commit_of_tag", tag, <<>>, <<>>, FALSE),
                        stripped(r.ret), r, <<>>, <<>>, trees, sizes, listed)

LogCommits == {"c1"}

Do_commit_log ==
    /\ Ready
    /\ \E commit \in LogCommits :
           \E run \in GitRuns(<<"log", commit>>) :
               Call(OpRec("commit_log", commit, <<>>, <<>>, FALSE),
                    IF run.status = 0 THEN VStr(run.out) ELSE VNone, NoCall(cache),
                    <<run.status>>,
                    IF run.status = 0 THEN <<>>
                    ELSE <<"commit_log error: "
                             \o ErrorStr(Command(<<"log", commit>>), run.status)>>,
                    trees, sizes, listed)

\* as commit_names, but it answers with the commit itself
commit_names_nonempty(commit) == VList(<<<<commit>>>>)

\* the three stubs: return []
commit_parents(commit) == VList(<<>>)
commit_descendants(commit) == VList(<<>>)
commit_names(commit) == VList(<<>>)

Do_commit_parents ==
    /\ Ready
    /\ \E commit \in Commits :
           Call(OpRec("commit_parents", commit, <<>>, <<>>, FALSE), commit_parents(commit),
                NoCall(cache), <<>>, <<>>, trees, sizes, listed)

Do_commit_descendants ==
    /\ Ready
    /\ \E commit \in Commits :
           Call(OpRec("commit_descendants", commit, <<>>, <<>>, FALSE),
                commit_descendants(commit), NoCall(cache), <<>>, <<>>, trees, sizes, listed)

Do_commit_names ==
    /\ Ready
    /\ \E commit \in Commits :
           Call(OpRec("commit_names", commit, <<>>, <<>>, FALSE), commit_names(commit),
                NoCall(cache), <<>>, <<>>, trees, sizes, listed)

DirPaths == {Root, <<"a">>}

Do_directory_contents ==
    /\ Ready
    /\ \E commit \in Commits, path \in DirPaths :
           LET list == LsTree(commit, Str(IF path # <<>> THEN path \o <<"/">> ELSE path))
           IN  \E run \in GitRuns(list) :
                   LET r == cached_command(cache, caching, list, FALSE, run)
                       ok == r.ret.kind = "str"
                       contents == splitlines(r.ret.text)
                   IN  Call(OpRec("directory_contents", commit, path, <<>>, FALSE),
                            names(r.ret), r, <<>>, <<>>,
                            IF ok THEN fill_trees(trees, commit, contents) ELSE trees,
                            sizes,
                            IF ok THEN Listed(listed, commit, contents) ELSE listed)

IsDirPaths == {Root, <<"a">>, <<"my", " ", "dir">>}

Do_is_dir ==
    /\ Ready
    /\ \E commit \in Commits, path \in IsDirPaths :
           IF commit \in DOMAIN trees
           THEN Call(OpRec("is_dir", commit, path, <<>>, FALSE),
                     VBool(path \in trees[commit]), NoCall(cache), <<>>, <<>>,
                     trees, sizes, listed)
           ELSE \E run \in GitRuns(CatFile(commit, Str(path))) :
                   LET r == cached_command(cache, caching, CatFile(commit, Str(path)),
                                           FALSE, run)
                   IN  Call(OpRec("is_dir", commit, path, <<>>, FALSE),
                            object_is_tree(r.ret), r, <<>>, <<>>, trees, sizes, listed)

FilePaths == {<<"b">>}

\* check_output(['git', '--git-dir', self._gitrepo, 'show', "%s:%s" % (commit, path)])
file_contents(run) == IF run.status = 0 THEN VStr(run.out) ELSE Raise("CalledProcessError")

Do_file_contents ==
    /\ Ready
    /\ \E commit \in LogCommits, path \in FilePaths :
           \E run \in GitRuns(<<"show", commit \o ":" \o Str(path)>>) :
               Call(OpRec("file_contents", commit, path, <<>>, FALSE), file_contents(run),
                    NoCall(cache), <<run.status>>, <<>>, trees, sizes, listed)

\* file_size that returns the length without recording it
file_size_forgets(sz, commit, path, run) ==
    LET sz1 == IF commit \in DOMAIN sz THEN sz ELSE Put(sz, commit, EmptyMap)
        contents == file_contents(run)
        size == IF contents.text # <<>> THEN Len(contents.text) ELSE 0
    IN  IF path \in DOMAIN sz1[commit]
        THEN [ret |-> VInt(sz1[commit][path]), sizes |-> sz1, runs |-> <<>>]
        ELSE IF Raised(contents)
        THEN [ret |-> contents, sizes |-> sz1, runs |-> <<run.status>>]
        ELSE [ret |-> VInt(size), sizes |-> sz1, runs |-> <<run.status>>]

\* as file_size, but the size is recorded only on a facade made with caching on
file_size_when_caching(sz, commit, path, run) ==
    LET sz1 == IF commit \in DOMAIN sz THEN sz ELSE Put(sz, commit, EmptyMap)
        contents == file_contents(run)
        size == IF contents.text # <<>> THEN Len(contents.text) ELSE 0
    IN  IF path \in DOMAIN sz1[commit]
        THEN [ret |-> VInt(sz1[commit][path]), sizes |-> sz1, runs |-> <<>>]
        ELSE IF Raised(contents)
        THEN [ret |-> contents, sizes |-> sz1, runs |-> <<run.status>>]
        ELSE [ret |-> VInt(size),
              sizes |-> IF caching THEN Put(sz1, commit, Put(sz1[commit], path, size)) ELSE sz1,
              runs |-> <<run.status>>]

\* file_size(commit, path) on self._sizes = sz: the result, the new _sizes and
\* the exit statuses of the runs of git file_contents made
file_size(sz, commit, path, run) ==
    LET sz1 == IF commit \in DOMAIN sz THEN sz ELSE Put(sz, commit, EmptyMap)
        contents == file_contents(run)
        size == IF contents.text # <<>> THEN Len(contents.text) ELSE 0
    IN  IF path \in DOMAIN sz1[commit]
        THEN [ret |-> VInt(sz1[commit][path]), sizes |-> sz1, runs |-> <<>>]
        ELSE IF Raised(contents)
        THEN [ret |-> contents, sizes |-> sz1, runs |-> <<run.status>>]
        ELSE [ret |-> VInt(size), sizes |-> Put(sz1, commit, Put(sz1[commit], path, size)),
              runs |-> <<run.status>>]

Do_file_size ==
    /\ Ready
    /\ \E commit \in Commits, path \in FilePaths :
           \E run \in GitRuns(<<"show", commit \o ":" \o Str(path)>>) :
               LET f == file_size(sizes, commit, path, run)
               IN  Call(OpRec("file_size", commit, path, <<>>, FALSE), f.ret,
                        NoCall(cache), f.runs, <<>>, trees, f.sizes, listed)

Next ==
    \/ Do_cached_command
    \/ Do_fill_trees
    \/ Do_branches
    \/ Do_tags
    \/ Do_commits
    \/ Do_last_commit_of_branch
    \/ Do_commit_of_tag
    \/ Do_commit_log
    \/ Do_commit_parents
    \/ Do_commit_descendants
    \/ Do_commit_names
    \/ Do_directory_contents
    \/ Do_is_dir
    \/ Do_file_contents
    \/ Do_file_size

Spec == Init /\ [][Next]_vars

(***************************************************************************)
(* Construction over several histories                                     *)
(***************************************************************************)
\* a year as --date=format:%Y prints it
YearLine(y) == <<Digits[((y \div 1000) % 10) + 1], Digits[((y \div 100) % 10) + 1],
                 Digits[((y \div 10) % 10) + 1], Digits[(y % 10) + 1]>>

\* what git prints for commits of the years ys
YearsText(ys) == Text([i \in 1..Len(ys) |-> YearLine(ys[i])])

\* years of the zero-parent commits of master, in the order git log lists them
RootYears == {<<2016, 2014>>, <<2015>>}
\* year of the most recent commit of master
TipYears == {2020}

YearRuns(texts) ==
    {[status |-> FailStatus, out |-> <<>>]} \cup {[status |-> 0, out |-> o] : o \in texts}

\* facades made with caching on, over each of these histories
InitYears ==
    Construct({TRUE}, YearRuns({YearsText(ys) : ys \in RootYears}),
              YearRuns({YearsText(<<y>>) : y \in TipYears}))

SpecYears == InitYears /\ [][Next]_vars

(***************************************************************************)
(* Properties                                                              *)
(***************************************************************************)
RefQueries == {"branches", "tags", "last_commit_of_branch", "commit_of_tag"}

\* C1: with caching enabled, a cached_command call returns what the first call
\* with the same argument list and the same mode returned, and git has been
\* run at most once for any argument list, whether that run succeeded or failed
C1_CacheIdempotence ==
    caching =>
        /\ cc.called => cc.ret = returned[<<cc.key, cc.rc>>]
        /\ \A k \in DOMAIN invocations : invocations[k] <= 1

\* a second content-mode call with the arguments of a first one that failed
C1_Witness ==
    /\ caching
    /\ op.name = "cached_command"
    /\ ~cc.rc
    /\ cc.hit
    /\ cc.ret = VNone
    /\ calls[cc.key] = 2
    /\ invocations[cc.key] = 1

\* C2: with caching disabled the cache is empty in every state, every
\* cached_command call runs git, and n calls with one argument list have run
\* git n times
C2_CacheBypass ==
    ~caching =>
        /\ DOMAIN cache = {}
        /\ cc.called => ~cc.hit /\ cc.status # -1
        /\ \A k \in DOMAIN calls : Count(invocations, k) = calls[k]

\* two calls with one argument list on a facade made without caching
C2_Witness ==
    /\ ~caching
    /\ op.name = "cached_command"
    /\ calls[cc.key] = 2
    /\ invocations[cc.key] = 2

\* C3: no call removes an entry of the command cache or changes its value
C3_CacheEntriesImmutable ==
    [][\A k \in DOMAIN cache : k \in DOMAIN cache' /\ cache'[k] = cache[k]]_vars

\* a facade query answered from an entry stored by an earlier call
C3_Witness ==
    /\ caching
    /\ steps = 2
    /\ op.name \in RefQueries \cup {"directory_contents", "is_dir", "commits"}
    /\ cc.hit
    /\ cc.key \in DOMAIN cache

\* C4: for a commit that has been filled, the known-directory set is, the
\* root path aside, the union of the tree-typed entries of all the listings
\* given to fill_trees for it
C4_TreeMonotonicity ==
    \A commit \in DOMAIN listed :
        commit \in DOMAIN trees /\ trees[commit] \ {Root} = listed[commit]

\* C5: for a commit that has been filled, is_dir(commit, path) is true
\* exactly when path is the root or a tree-typed entry of a listing given to
\* fill_trees for that commit
C5_DirectoryMembership ==
    (op.name = "is_dir" /\ op.commit \in DOMAIN listed) =>
        ret = VBool(op.path \in listed[op.commit] \cup {Root})

\* C6: is_dir for a commit without a known-directory set makes one
\* content-mode cached_command call, returns whether the stripped answer is
\* "tree", and leaves self._trees as it was, without a set for the commit
C6_IsDirFallback ==
    [][(op'.name = "is_dir" /\ op'.commit \notin DOMAIN trees) =>
          /\ cc'.called
          /\ ~cc'.rc
          /\ cc'.key = Command(CatFile(op'.commit, Str(op'.path)))
          /\ ret' = VBool(cc'.ret.kind = "str" /\ strip(cc'.ret.text) = <<"tree">>)
          /\ trees' = trees]_vars

C8_DirectoryContentsFailure ==
    [][(op'.name = "directory_contents" /\ cc'.ret = VNone) =>
          (ret' = VList(<<>>) /\ trees' = trees)]_vars

\* C9: branches, tags, last_commit_of_branch and commit_of_tag return None
\* when their command failed
C9_RefQueryFailure ==
    (op.name \in RefQueries /\ cc.ret = VNone) => ret = VNone

\* C10: tags and branches return an empty list, which is neither None nor
\* an exception, when the enumeration succeeded with no output, whether git
\* was run by this call or the text came from the cache
C10_EmptyRefListing ==
    (op.name \in {"tags", "branches"} /\ cc.ret = VStr(<<>>)) =>
        ret = VList(<<>>) /\ ret # VNone /\ ~Raised(ret)

\* tags() answered from the cache with the empty text of an earlier tags()
C10_Witness ==
    /\ op.name = "tags"
    /\ cc.hit
    /\ cc.ret = VStr(<<>>)
    /\ ret = VList(<<>>)

\* whether self._sizes = sz holds a size for (commit, path)
HasSize(sz, commit, path) == commit \in DOMAIN sz /\ path \in DOMAIN sz[commit]

\* C11: a file_size call that returns records the integer it returns; no
\* operation changes or drops a recorded size; a file_size call for a
\* (commit, path) with a recorded size returns that size and runs git not at
\* all.  Hence every call after the first one that returned gives the same
\* integer without fetching the content again.
C11_FileSizeOnce ==
    [][/\ \A commit \in DOMAIN sizes : \A path \in DOMAIN sizes[commit] :
              HasSize(sizes', commit, path) /\ sizes'[commit][path] = sizes[commit][path]
       /\ (op'.name = "file_size" /\ ~Raised(ret')) =>
              /\ ret'.kind = "int"
              /\ HasSize(sizes', op'.commit, op'.path)
              /\ sizes'[op'.commit][op'.path] = ret'.int
       /\ (op'.name = "file_size" /\ HasSize(sizes, op'.commit, op'.path)) =>
              /\ ret' = VInt(sizes[op'.commit][op'.path])
              /\ direct' = <<>>
              /\ cc'.called = FALSE]_vars

\* a second file_size call answered from the recorded size of a non-empty file
C11_Witness ==
    /\ op.name = "file_size"
    /\ steps = 2
    /\ direct = <<>>
    /\ ret = VInt(2)

\* C12: a file_size call whose fetch of the content fails (git ends with a
\* non-zero status) returns 0, it does not raise, and records 0 for the
\* (commit, path); every file_size call returns an integer.
C12_FileSizeZeroOnFailure ==
    op.name = "file_size" =>
        /\ ret.kind = "int"
        /\ direct = <<FailStatus>> =>
               /\ ret = VInt(0)
               /\ HasSize(sizes, op.commit, op.path)
               /\ sizes[op.commit][op.path] = 0

\* the years git printed for the construction's query with argument list list
PrintedYears(list) ==
    LET v == returned[<<Command(list), FALSE>>]
        lines == splitlines(v.text)
    IN  {Number(lines[i]) : i \in 1..Len(lines)}

\* C13: on a constructed facade, in every state any sequence of operations
\* leads to, years is the ascending sequence of all the years from the least
\* year of master's zero-parent commits to the year of master's most recent
\* commit, both included.
C13_YearRange ==
    phase = "ready" =>
        LET roots == PrintedYears(FirstYearList)
            lo == CHOOSE y \in roots : \A z \in roots : y <= z
            hi == CHOOSE y \in PrintedYears(LastYearList) : TRUE
        IN  /\ Len(years) = IF hi >= lo THEN hi - lo + 1 ELSE 0
            /\ \A i \in 1..Len(years) : years[i] = lo + i - 1

\* the facade of a history from 2015 to 2020, after two operations
C13_Witness ==
    /\ phase = "ready"
    /\ steps = 2
    /\ years = <<2015, 2016, 2017, 2018, 2019, 2020>>

\* C14: construction aborts exactly when one of the two year queries fails;
\* on a constructed facade, no operation whose run of git ends with a
\* non-zero status raises an exception.
C14_NoFatalAfterConstruction ==
    /\ phase = "aborted" <=>
           \E list \in {FirstYearList, LastYearList} :
               /\ <<Command(list), FALSE>> \in DOMAIN returned
               /\ returned[<<Command(list), FALSE>>] = VNone
    /\ (/\ phase = "ready"
        /\ op.name # "__init__"
        /\ \/ cc.called /\ cc.status = FailStatus
           \/ direct = <<FailStatus>>) => ~Raised(ret)

\* C15: commits(y, m, d), when it returns, returns exactly the hashes of the
\* commits whose timestamp is at or after the start of the previous day and
\* before the start of the given day, in the order git traverses them.
C15_DayWindow ==
    (op.name = "commits" /\ ~Raised(ret)) =>
        LET end == op.list
            start == PrevDay(end[1], end[2], end[3])
            In(c) == /\ NotAfter(start \o <<0>>, c.day \o <<c.sec>>)
                     /\ ~NotAfter(end \o <<0>>, c.day \o <<c.sec>>)
            window == SelectSeq(History, In)
        IN  ret = VList([i \in 1..Len(window) |-> <<window[i].hash>>])

Stubs == {"commit_parents", "commit_descendants", "commit_names"}

\* C16: in every state and for every commit, commit_parents,
\* commit_descendants and commit_names return the empty list, run git neither
\* through cached_command nor directly, and leave the command cache, the
\* known-directory sets and the recorded sizes as they were.
C16_StubsAreInert ==
    [][op'.name \in Stubs =>
           /\ ret' = VList(<<>>)
           /\ cc'.called = FALSE
           /\ direct' = <<>>
           /\ invocations' = invocations
           /\ cache' = cache
           /\ trees' = trees
           /\ sizes' = sizes]_vars

\* a stub called for the second commit on a facade that holds a
\* known-directory set and a cached command
C16_Witness ==
    /\ op.name \in Stubs
    /\ op.commit = "c2"
    /\ ret = VList(<<>>)
    /\ trees # EmptyMap
    /\ cache # EmptyMap

C18_DirectoryDiscovery ==
    (op.name = "directory_contents" /\ ~Raised(ret)) =>
        LET contents == splitlines(cc.ret.text)
        IN  /\ op.commit \in DOMAIN trees
            /\ Root \in trees[op.commit]
            /\ TreeEntries(contents) \subseteq trees[op.commit]
            /\ ret.kind = "list"
            /\ Len(ret.list) = Len(contents)
            /\ \A i \in 1..Len(contents) :
                   ret.list[i] = Last(split(EntryPath(contents[i]), "/"))

\* the paths fill_trees registers for the lines contents
Registered(contents) ==
    {path_of(contents[i]) : i \in {j \in 1..Len(contents) : type_of(contents[j]) = <<"tree">>}}

\* the recorded sizes as a set of <<commit, path, size>>
SizeEntries(sz) == UNION {{<<c, p, sz[c][p]>> : p \in DOMAIN sz[c]} : c \in DOMAIN sz}

C20_IsDirAfterFill ==
    [][/\ (op'.name = "is_dir" /\ op'.commit \in DOMAIN trees) =>
              /\ cc'.called = FALSE
              /\ direct' = <<>>
              /\ cache' = cache
              /\ invocations' = invocations
              /\ ret' = VBool(op'.path \in trees[op'.commit])
       /\ \A c \in DOMAIN trees : c \in DOMAIN trees' /\ trees[c] \subseteq trees'[c]
       /\ \A c \in Commits \ {op'.commit} :
              /\ c \in DOMAIN trees' <=> c \in DOMAIN trees
              /\ c \in DOMAIN trees => trees'[c] = trees[c]]_vars

\* is_dir for a filled commit answers true from the set while the other
\* commit has no set
C20_Witness ==
    /\ op.name = "is_dir"
    /\ op.commit = "c1"
    /\ op.path = <<"a">>
    /\ cc.called = FALSE
    /\ ret = VBool(TRUE)
    /\ DOMAIN trees = {"c1"}

====
